---- MODULE Spec2Model ----
(***************************************************************************)
(* The two VPAID ad adapters of the repository, VpaidLinearAd              *)
(* (src/examples/VpaidLinearAd.js) and VpaidNonLinear                      *)
(* (src/unnamed/part_000), as one state machine.  `variant` says which of  *)
(* the two constructors built the instance.                                *)
(*                                                                         *)
(* Time is in milliseconds.  The attributes the source keeps in seconds    *)
(* (duration, remainingTime) are kept in milliseconds as well, so that     *)
(* 0.25 s is the integer 250.                                              *)
(*                                                                         *)
(* The host's callbacks are opaque: they record that they were invoked     *)
(* and do not call back into the adapter.                                  *)
(***************************************************************************)
EXTENDS Integers, Sequences, FiniteSets, TLC

VARIABLES
  variant,            \* "linear" | "nonlinear": which constructor ran
  eventsCallbacks,    \* eventsCallbacks_ / eventCallbacks_: name -> binding
  attributes,         \* attributes_
  intervalId,         \* intervalId_ (linear); 0 is null
  lastQuartileIndex,  \* lastQuartileIndex_ (linear)
  parameters,         \* parameters_ (linear) / ads_, videos_ (non-linear)
  videoSlot,          \* videoSlot_: the host's media element
  listeners,          \* listeners the adapter registered on the media element
  mounted,            \* non-linear: a clickable container is in slot_
  timing,             \* non-linear: startTime_, timePaused_, isPaused_,
                      \*   lastRemainingTime_, pauseStartTime_
  now,                \* the wall clock (new Date().getTime())
  timeouts,           \* pending setTimeout(callback, 75, ['AdStopped'])
  intervals,          \* live setInterval timers: {[id, due]}
  calls,              \* how many times the host made each bounded call
  lastOp,             \* history: the last operation, its dispatches, its error
  quartileLog,        \* history: scheduled events timeUpdateHandler_ dispatched
  stoppedCount,       \* history: number of AdStopped dispatches
  stoppedDelay,       \* history: time from the last fired stopAd to AdStopped
  phase,              \* history: the lifecycle state the calls have produced
  resumedSince,       \* history: the last of resume/pause/stop was a resume
  subscribed,         \* history: per event name, the callback of the latest
                      \*   subscribe ("none" after unsubscribe), and all
                      \*   callbacks ever subscribed to it
  progress,           \* history: the media element's reports so far: one
                      \*   was seen, the first was at position 0, each had a
                      \*   known duration and a position not before the
                      \*   previous one (mono), no listener threw (clean);
                      \*   and how many times the 'loadedmetadata'
                      \*   listeners dispatched AdDurationChange (notices)
  sample              \* history: the last value getAdRemainingTime returned
                      \*   since the last start/pause/resume, when it was
                      \*   taken, and which of the three calls came last;
                      \*   and the last value returned since startAd

vars == <<variant, eventsCallbacks, attributes, intervalId, lastQuartileIndex,
          parameters, videoSlot, listeners, mounted, timing, now, timeouts,
          intervals, calls, lastOp, quartileLog, stoppedCount, stoppedDelay,
          phase, resumedSince, subscribed, progress, sample>>

----------------------------------------------------------------------------
(* Bounds of the model *)

MaxInits == 2
MaxStarts == 2
MaxStops == 2
MaxResumes == 2
MaxClicks == 1
MaxOverlays == 2
MaxClock == 300
Quantum == 50
\* The last instant the clock reaches.
Horizon == (MaxClock \div Quantum) * Quantum

(* Program constants *)

STOP_DELAY == 75
INTERVAL_MS == 250
REMAINING_STEP == 250
LINEAR_DURATION == 6000
LINEAR_REMAINING == 13000
NONLINEAR_DURATION == 10000
NONLINEAR_VOLUME == 50
CLICK_EXTENSION == 10000
DEFAULT_BITRATE == 256

(* JavaScript's NaN and undefined, as numbers no computation of the model
   produces otherwise. *)
NaN == -999999
Undef == -999998

IsNum(x) == x # NaN /\ x # Undef
JsSub(a, b) == IF IsNum(a) /\ IsNum(b) THEN a - b ELSE NaN
JsAdd(a, b) == IF IsNum(a) /\ IsNum(b) THEN a + b ELSE NaN
\* a != b
JsNe(a, b) == IF a = NaN \/ b = NaN THEN TRUE ELSE a # b
\* a < b
JsLt(a, b) == IsNum(a) /\ IsNum(b) /\ a < b

----------------------------------------------------------------------------
(* The event bus *)

Variants == {"linear", "nonlinear"}

EventNames ==
  {"AdLoaded", "AdStarted", "AdImpression", "AdVideoStart",
   "AdVideoFirstQuartile", "AdVideoMidpoint", "AdVideoThirdQuartile",
   "AdVideoComplete", "AdPaused", "AdPlaying", "AdStopped", "AdSkipped",
   "AdSizeChange", "AdExpanded", "AdVolumeChange", "AdVolumeChanged",
   "AdDurationChange", "AdRemainingTimeChange", "AdLinearChange",
   "AdClickThru", "AdError"}

Callbacks == {"cb1", "cb2"}
Absent == "absent"      \* the name is not a key of the registry object
Null == "null"          \* the name is a key whose value is null
NoCb == "none"          \* a dispatch that invoked nothing
Threw == "threw"        \* a dispatch that raised a TypeError

\* An operation in progress: its dispatches so far, and whether it threw.
Ex0 == [disp |-> <<>>, err |-> FALSE]
Throw(ex) == [ex EXCEPT !.err = TRUE]

\* callEvent_ / invokeCallback_:
\*   if (eventType in callbacks) callbacks[eventType]()
CallEvent(ex, reg, ev) ==
  IF ex.err THEN ex
  ELSE IF reg[ev] = Absent
    THEN [ex EXCEPT !.disp = Append(@, [event |-> ev, cb |-> NoCb])]
  ELSE IF reg[ev] = Null
    THEN [disp |-> Append(ex.disp, [event |-> ev, cb |-> Threw]), err |-> TRUE]
  ELSE [ex EXCEPT !.disp = Append(@, [event |-> ev, cb |-> reg[ev]])]

\* `callbacks[eventType]()` with no presence check
DirectCall(ex, reg, ev) ==
  IF ex.err THEN ex
  ELSE IF reg[ev] \in Callbacks
    THEN [ex EXCEPT !.disp = Append(@, [event |-> ev, cb |-> reg[ev]])]
  ELSE [disp |-> Append(ex.disp, [event |-> ev, cb |-> Threw]), err |-> TRUE]

\* The record of an operation: its name, its dispatches, whether it threw,
\* the arguments it was called with, and what the subscribers of its change
\* events could read when they were invoked.
OpSeen(name, ex, args, seen) ==
  [name |-> name, disp |-> ex.disp, err |-> ex.err, args |-> args,
   seen |-> seen]

OpWith(name, ex, args) == OpSeen(name, ex, args, <<>>)

Op(name, ex) == OpWith(name, ex, <<>>)

\* A dispatch that reads the attribute as it was before the assignment.
AtDispatchStale(old, new) == old

\* What a getter returns while a change event is being dispatched: in every
\* setter the assignment to attributes_ is the statement before callEvent_,
\* so the getter returns the value just assigned.
AtDispatch(old, new) == new

\* The invocations of ev's subscriber among the dispatches of ex, each with
\* the value its getter returned.
SeenBy(ex, ev, value) ==
  LET Is(d) == d.event = ev /\ d.cb \in Callbacks
      hit == SelectSeq(ex.disp, Is)
  IN [i \in 1..Len(hit) |-> [event |-> ev, cb |-> hit[i].cb, value |-> value]]

\* The event names of a sequence of dispatches.
EventsOf(disp) == [i \in 1..Len(disp) |-> disp[i].event]
\* The number of dispatches of ev in a sequence of dispatches.
CountOf(disp, ev) == Cardinality({i \in 1..Len(disp) : disp[i].event = ev})

----------------------------------------------------------------------------
(* Construction *)

quartileEvents_ ==
  << [event |-> "AdImpression", value |-> 0],
     [event |-> "AdVideoStart", value |-> 0],
     [event |-> "AdVideoFirstQuartile", value |-> 25],
     [event |-> "AdVideoMidpoint", value |-> 50],
     [event |-> "AdVideoThirdQuartile", value |-> 75],
     [event |-> "AdVideoComplete", value |-> 100] >>

LinearAttributes ==
  [desiredBitrate |-> DEFAULT_BITRATE, duration |-> LINEAR_DURATION,
   expanded |-> FALSE, height |-> 0, linear |-> TRUE,
   remainingTime |-> LINEAR_REMAINING, skippableState |-> FALSE,
   viewMode |-> "normal", width |-> 0, volume |-> 1]

NonLinearAttributes ==
  [desiredBitrate |-> DEFAULT_BITRATE, duration |-> NONLINEAR_DURATION,
   expanded |-> FALSE, height |-> 0, linear |-> FALSE,
   remainingTime |-> Undef, skippableState |-> FALSE,
   viewMode |-> "normal", width |-> 0, volume |-> NONLINEAR_VOLUME]

\* No value of getAdRemainingTime is on record since the call `since`.
NoSample(since) ==
  [has |-> FALSE, value |-> 0, at |-> 0, since |-> since, any |-> FALSE,
   last |-> 0]

\* A pause or a resume: the next value is the first since that call; the
\* last value returned since startAd stays on record.
SampleAfter(s, since) ==
  [NoSample(since) EXCEPT !.any = s.any, !.last = s.last]

Init ==
  /\ variant \in Variants
  /\ eventsCallbacks = [e \in EventNames |-> Absent]
  /\ attributes = IF variant = "linear" THEN LinearAttributes
                  ELSE NonLinearAttributes
  /\ intervalId = 0
  /\ lastQuartileIndex = 0
  /\ parameters = [ads |-> FALSE, videos |-> <<>>]
  /\ videoSlot = [present |-> FALSE, src |-> 0, playing |-> FALSE,
                  currentTime |-> 0, duration |-> NaN, volume |-> 100,
                  size |-> <<0, 0>>]
  /\ listeners = [timeupdate |-> 0, ended |-> 0, loadedmetadata |-> 0]
  /\ mounted = FALSE
  /\ timing = [startTime |-> 0, timePaused |-> Undef,
               lastRemainingTime |-> Undef, isPaused |-> FALSE,
               pauseStartTime |-> Undef]
  /\ now = 0
  /\ timeouts = <<>>
  /\ intervals = {}
  /\ calls = [init |-> 0, start |-> 0, stop |-> 0, resume |-> 0, click |-> 0,
              overlay |-> 0]
  /\ lastOp = Op("new", Ex0)
  /\ quartileLog = <<>>
  /\ stoppedCount = 0
  /\ stoppedDelay = 0
  /\ phase = "Unstarted"
  /\ resumedSince = FALSE
  /\ subscribed = [e \in EventNames |-> [last |-> NoCb, ever |-> {}]]
  /\ progress = [seen |-> FALSE, from0 |-> FALSE, mono |-> TRUE,
                 clean |-> TRUE, notices |-> 0]
  /\ sample = NoSample("new")

----------------------------------------------------------------------------
(* The lifecycle state the host's calls have produced (history).  A call
   moves it only when it is valid in the current state and returned
   normally; the code itself keeps no such state. *)

PhaseAfter(ph, op, ok) ==
  IF ~ok THEN ph
  ELSE IF op = "initAd" /\ ph = "Unstarted" THEN "Loaded"
  ELSE IF op = "startAd" /\ ph = "Loaded" THEN "Playing"
  ELSE IF op = "pauseAd" /\ ph = "Playing" THEN "Paused"
  ELSE IF op = "resumeAd" /\ ph = "Paused" THEN "Playing"
  ELSE IF op = "stopAd" /\ ph # "Stopped" THEN "Stopped"
  ELSE ph

----------------------------------------------------------------------------
(* initAd *)

\* The index of the first video whose mimetype the media element can play,
\* 0 when there is none.  videos[i] is canPlayType(videos[i].mimetype) != ''.
FirstPlayable(videos) ==
  IF \E i \in 1..Len(videos) : videos[i]
  THEN CHOOSE i \in 1..Len(videos) :
         videos[i] /\ \A j \in 1..(i - 1) : ~videos[j]
  ELSE 0

\* updateVideoSlot_: the source it selects and the dispatch it makes.
UpdateVideoSlot(ex, reg, videos) ==
  IF FirstPlayable(videos) # 0 THEN ex ELSE CallEvent(ex, reg, "AdError")

\* An initAd that stores the width as the height and the height as the width.
StoreInitArgsSwapped(attrs, w, h, vm, br) ==
  [attrs EXCEPT !.width = h, !.height = w, !.viewMode = vm,
                !.desiredBitrate = br]

\* attributes_['width'] = width; ... ; attributes_['desiredBitrate'] = ...
StoreInitArgs(attrs, w, h, vm, br) ==
  [attrs EXCEPT !.width = w, !.height = h, !.viewMode = vm,
                !.desiredBitrate = br]

\* creative.ok is FALSE when JSON.parse(creativeData['AdParameters']) throws.
InitAd(w, h, vm, br, creative) ==
  /\ calls.init < MaxInits
  /\ calls' = [calls EXCEPT !.init = @ + 1]
  /\ attributes' = StoreInitArgs(attributes, w, h, vm, br)
  /\ LET parsed == [ads |-> creative.ads, videos |-> creative.videos]
         ex1 == IF ~creative.ok THEN Throw(Ex0)
                ELSE IF variant = "linear"
                  THEN UpdateVideoSlot(Ex0, eventsCallbacks, parsed.videos)
                ELSE Ex0
         \* the media listeners are added after updateVideoSlot_ returned
         ex2 == CallEvent(ex1, eventsCallbacks, "AdLoaded")
         sel == FirstPlayable(parsed.videos)
     IN /\ parameters' = IF creative.ok THEN parsed ELSE parameters
        \* setting src makes the element load the new media from its start
        /\ videoSlot' =
             IF variant = "linear" /\ creative.ok /\ sel # 0
             THEN [videoSlot EXCEPT !.present = TRUE, !.src = sel,
                                    !.currentTime = 0, !.duration = NaN]
             ELSE [videoSlot EXCEPT !.present = TRUE]
        /\ listeners' = IF variant = "linear" /\ ~ex1.err
                        THEN [listeners EXCEPT !.timeupdate = @ + 1,
                                               !.ended = @ + 1]
                        ELSE listeners
        /\ lastOp' = OpWith("initAd", ex2,
                            [width |-> w, height |-> h, viewMode |-> vm,
                             desiredBitrate |-> br, creative |-> creative])
        /\ phase' = PhaseAfter(phase, "initAd", ~ex2.err)
  /\ UNCHANGED <<sample,
                 variant, eventsCallbacks, intervalId, lastQuartileIndex,
                 mounted, timing, now, timeouts, intervals, quartileLog,
                 stoppedCount, stoppedDelay, resumedSince, subscribed,
                 progress>>

----------------------------------------------------------------------------
(* startAd *)

\* The markup template reads parameters_.ads[0] / ads_[0]: a TypeError when
\* there is no such entry, raised before anything else in startAd.
StartAd ==
  /\ calls.start < MaxStarts
  /\ calls' = [calls EXCEPT !.start = @ + 1]
  /\ LET ex0 == IF parameters.ads /\ videoSlot.present THEN Ex0 ELSE Throw(Ex0)
         ex1 == CallEvent(ex0, eventsCallbacks, "AdStarted")
         ex2 == IF variant = "linear" THEN ex1
                ELSE CallEvent(ex1, eventsCallbacks, "AdImpression")
     IN /\ videoSlot' = IF variant = "linear" /\ ~ex0.err
                        THEN [videoSlot EXCEPT !.playing = TRUE]
                        ELSE videoSlot
        /\ mounted' = IF variant = "nonlinear" /\ ~ex0.err THEN TRUE
                      ELSE mounted
        /\ timing' = IF variant = "nonlinear" /\ ~ex0.err
                     THEN [timing EXCEPT !.startTime = now, !.timePaused = 0,
                                         !.lastRemainingTime = -1000,
                                         !.isPaused = FALSE]
                     ELSE timing
        /\ lastOp' = Op("startAd", ex2)
        /\ phase' = PhaseAfter(phase, "startAd", ~ex2.err)
  /\ sample' = IF variant = "nonlinear" /\ parameters.ads /\ videoSlot.present
               THEN NoSample("start") ELSE sample
  /\ UNCHANGED <<variant, eventsCallbacks, attributes, intervalId,
                 lastQuartileIndex, parameters, listeners, now, timeouts,
                 intervals, quartileLog, stoppedCount, stoppedDelay,
                 resumedSince, subscribed, progress>>

----------------------------------------------------------------------------
(* stopAd, called by the host and by the media element's 'ended' listeners *)

\* clearInterval(id)
ClearInterval(ivs, id) == {t \in ivs : t.id # id}

\* A stopAd that defers by no time at all.
ScheduleStoppedAtOnce(ts, t) == Append(ts, [at |-> t, due |-> t])

\* setTimeout(callback, 75, ['AdStopped']) at time t
ScheduleStopped(ts, t) == Append(ts, [at |-> t, due |-> t + STOP_DELAY])

RECURSIVE ScheduleStoppedTimes(_, _, _)
ScheduleStoppedTimes(ts, t, n) ==
  IF n = 0 THEN ts ELSE ScheduleStoppedTimes(ScheduleStopped(ts, t), t, n - 1)

\* n calls of stopAd in a row
StopAdBody(name, n) ==
  /\ calls.stop + n <= MaxStops
  /\ now + STOP_DELAY <= Horizon
  /\ calls' = [calls EXCEPT !.stop = @ + n]
  /\ intervals' = IF variant = "linear" /\ intervalId # 0
                  THEN ClearInterval(intervals, intervalId) ELSE intervals
  /\ timeouts' = ScheduleStoppedTimes(timeouts, now, n)
  /\ lastOp' = Op(name, Ex0)
  /\ phase' = PhaseAfter(phase, "stopAd", TRUE)
  /\ resumedSince' = FALSE
  /\ UNCHANGED <<sample,
                 variant, eventsCallbacks, attributes, intervalId,
                 lastQuartileIndex, parameters, videoSlot, listeners, mounted,
                 timing, now, quartileLog, stoppedCount, stoppedDelay,
                 subscribed, progress>>

StopAd == StopAdBody("stopAd", 1)

\* The media element fires 'ended': every registered listener runs stopAd.
MediaEnded ==
  /\ listeners.ended > 0
  /\ videoSlot.src # 0
  /\ StopAdBody("ended", listeners.ended)

\* The deferred callback: callEvent_(['AdStopped'])
StopTimeoutFire ==
  /\ timeouts # <<>>
  /\ now >= Head(timeouts).due
  /\ timeouts' = Tail(timeouts)
  /\ stoppedCount' = stoppedCount + 1
  /\ stoppedDelay' = now - Head(timeouts).at
  /\ lastOp' = Op("stopTimeout", CallEvent(Ex0, eventsCallbacks, "AdStopped"))
  /\ UNCHANGED <<sample,
                 variant, eventsCallbacks, attributes, intervalId,
                 lastQuartileIndex, parameters, videoSlot, listeners, mounted,
                 timing, now, intervals, calls, quartileLog, phase,
                 resumedSince, subscribed, progress>>

----------------------------------------------------------------------------
(* pauseAd, resumeAd and the remaining-time interval *)

\* A pauseAd that pauses the ad whether or not it is linear.
AlwaysPausable(attrs) == FALSE

\* if (!this.attributes_.linear) return;
CannotPause(attrs) == ~attrs.linear

PauseAd ==
  /\ IF variant = "linear"
     THEN LET ex0 == IF videoSlot.present THEN Ex0 ELSE Throw(Ex0)
              ex1 == CallEvent(ex0, eventsCallbacks, "AdPaused")
          IN /\ videoSlot' = IF ex0.err THEN videoSlot
                             ELSE [videoSlot EXCEPT !.playing = FALSE]
             \* clearInterval comes after the dispatch
             /\ intervals' = IF ~ex1.err /\ intervalId # 0
                             THEN ClearInterval(intervals, intervalId)
                             ELSE intervals
             /\ timing' = timing
             /\ lastOp' = Op("pauseAd", ex1)
             /\ phase' = PhaseAfter(phase, "pauseAd", ~ex1.err)
             /\ resumedSince' = IF ex1.err THEN resumedSince ELSE FALSE
     ELSE IF CannotPause(attributes)
     THEN \* cannot pause a non-linear ad
          /\ lastOp' = Op("pauseAd", Ex0)
          /\ resumedSince' = FALSE
          /\ phase' = PhaseAfter(phase, "pauseAd", TRUE)
          /\ UNCHANGED <<videoSlot, intervals, timing>>
     ELSE LET ex0 == IF videoSlot.present THEN Ex0 ELSE Throw(Ex0)
              ex1 == CallEvent(ex0, eventsCallbacks, "AdPaused")
          IN /\ timing' = [timing EXCEPT !.isPaused = TRUE,
                                         !.pauseStartTime = now]
             /\ videoSlot' = IF ex0.err THEN videoSlot
                             ELSE [videoSlot EXCEPT !.playing = FALSE]
             /\ intervals' = intervals
             /\ lastOp' = Op("pauseAd", ex1)
             /\ phase' = PhaseAfter(phase, "pauseAd", ~ex1.err)
             /\ resumedSince' = IF ex1.err THEN resumedSince ELSE FALSE
  /\ sample' = SampleAfter(sample,
                           IF phase = "Playing" THEN "pause" ELSE "misuse")
  /\ UNCHANGED <<variant, eventsCallbacks, attributes, intervalId,
                 lastQuartileIndex, parameters, listeners, mounted, now,
                 timeouts, calls, quartileLog, stoppedCount, stoppedDelay,
                 subscribed, progress>>

\* The id setInterval returns: each call returns a fresh one.
NewIntervalId == calls.resume + 1

ResumeAd ==
  /\ calls.resume < MaxResumes
  /\ calls' = [calls EXCEPT !.resume = @ + 1]
  /\ LET ex0 == IF videoSlot.present THEN Ex0 ELSE Throw(Ex0)
         ex1 == CallEvent(ex0, eventsCallbacks, "AdPlaying")
     IN /\ videoSlot' = IF ex0.err THEN videoSlot
                        ELSE [videoSlot EXCEPT !.playing = TRUE]
        \* non-linear: the timing fields are written before videoSlot_.play()
        /\ timing' = IF variant = "nonlinear"
                     THEN [timing EXCEPT
                             !.isPaused = FALSE,
                             !.timePaused =
                               JsAdd(@, JsSub(now, timing.pauseStartTime))]
                     ELSE timing
        \* linear: intervalId_ = setInterval(callback, 250) after the dispatch
        /\ intervalId' = IF variant = "linear" /\ ~ex1.err THEN NewIntervalId
                         ELSE intervalId
        /\ intervals' = IF variant = "linear" /\ ~ex1.err
                        THEN intervals \cup
                          {[id |-> NewIntervalId, due |-> now + INTERVAL_MS]}
                        ELSE intervals
        /\ lastOp' = Op("resumeAd", ex1)
        /\ phase' = PhaseAfter(phase, "resumeAd", ~ex1.err)
  /\ resumedSince' = TRUE
  /\ sample' = SampleAfter(sample,
                           IF phase = "Paused" THEN "resume" ELSE "misuse")
  /\ UNCHANGED <<variant, eventsCallbacks, attributes, lastQuartileIndex,
                 parameters, listeners, mounted, now, timeouts, quartileLog,
                 stoppedCount, stoppedDelay, subscribed, progress>>

\* The interval callback of resumeAd:
\*   remainingTime -= 0.25; callEvent_('AdRemainingTimeChange')
IntervalFire(id) ==
  /\ \E t \in intervals : t.id = id /\ now >= t.due
  /\ attributes' = [attributes EXCEPT
                      !.remainingTime = JsSub(@, REMAINING_STEP)]
  /\ intervals' = ClearInterval(intervals, id) \cup
                    {[id |-> id, due |-> now + INTERVAL_MS]}
  /\ lastOp' = Op("interval",
                  CallEvent(Ex0, eventsCallbacks, "AdRemainingTimeChange"))
  /\ UNCHANGED <<sample,
                 variant, eventsCallbacks, intervalId, lastQuartileIndex,
                 parameters, videoSlot, listeners, mounted, timing, now,
                 timeouts, calls, quartileLog, stoppedCount, stoppedDelay,
                 phase, resumedSince, subscribed, progress>>

\* The wall clock advances.
Tick ==
  /\ now + Quantum <= MaxClock
  /\ now' = now + Quantum
  /\ lastOp' = Op("tick", Ex0)
  /\ UNCHANGED <<sample,
                 variant, eventsCallbacks, attributes, intervalId,
                 lastQuartileIndex, parameters, videoSlot, listeners, mounted,
                 timing, timeouts, intervals, calls, quartileLog,
                 stoppedCount, stoppedDelay, phase, resumedSince, subscribed,
                 progress>>

----------------------------------------------------------------------------
(* getAdRemainingTime *)

\* Non-linear: duration - (currentTime - startTime_ - timePaused_) / 1000.0
RemainingByClock(dur, t, tm) ==
  JsSub(dur, JsSub(JsSub(t, tm.startTime), tm.timePaused))

\* The value the call returns.  The linear ad returns the stored attribute;
\* the non-linear ad returns the snapshot while isPaused_ and recomputes
\* from the wall clock otherwise.
RemainingTime ==
  IF variant = "linear" THEN attributes.remainingTime
  ELSE IF timing.isPaused THEN timing.lastRemainingTime
  ELSE RemainingByClock(attributes.duration, now, timing)

GetAdRemainingTime ==
  /\ timing' = IF variant = "nonlinear" /\ ~timing.isPaused
               THEN [timing EXCEPT !.lastRemainingTime = RemainingTime]
               ELSE timing
  /\ sample' = [has |-> TRUE, value |-> RemainingTime, at |-> now,
                since |-> sample.since, any |-> TRUE, last |-> RemainingTime]
  /\ lastOp' = OpWith("getAdRemainingTime", Ex0, <<RemainingTime>>)
  /\ UNCHANGED <<variant, eventsCallbacks, attributes, intervalId,
                 lastQuartileIndex, parameters, videoSlot, listeners, mounted,
                 now, timeouts, intervals, calls, quartileLog, stoppedCount,
                 stoppedDelay, phase, resumedSince, subscribed, progress>>

----------------------------------------------------------------------------
(* setAdVolume, skipAd, expandAd, collapseAd *)

\* The event name each variant's setAdVolume dispatches.
VolumeEvent == IF variant = "linear" THEN "AdVolumeChange"
               ELSE "AdVolumeChanged"

\* The linear ad also writes videoSlot_.volume = value / 100.0, a TypeError
\* while there is no media element.
SetAdVolume(value) ==
  /\ attributes' = [attributes EXCEPT !.volume = value]
  /\ LET ex0 == IF variant = "linear" /\ ~videoSlot.present THEN Throw(Ex0)
                ELSE Ex0
         ex1 == CallEvent(ex0, eventsCallbacks, VolumeEvent)
     IN /\ videoSlot' = IF variant = "linear" /\ ~ex0.err
                        THEN [videoSlot EXCEPT !.volume = value]
                        ELSE videoSlot
        /\ lastOp' = OpSeen("setAdVolume", ex1, <<value>>,
                            SeenBy(ex1, VolumeEvent,
                                   AtDispatch(attributes.volume, value)))
  /\ UNCHANGED <<variant, eventsCallbacks, intervalId, lastQuartileIndex,
                 parameters, listeners, mounted, timing, now, timeouts,
                 intervals, calls, quartileLog, stoppedCount, stoppedDelay,
                 phase, resumedSince, subscribed, progress, sample>>

\* A skipAd that does not look at skippableState.
SkipDispatchAlways(skippable, ex, reg) == CallEvent(ex, reg, "AdSkipped")

\* if (skippableState) callEvent_('AdSkipped')
SkipDispatch(skippable, ex, reg) ==
  IF skippable THEN CallEvent(ex, reg, "AdSkipped") ELSE ex

SkipAd ==
  /\ lastOp' = Op("skipAd",
                  SkipDispatch(attributes.skippableState, Ex0, eventsCallbacks))
  /\ UNCHANGED <<variant, eventsCallbacks, attributes, intervalId,
                 lastQuartileIndex, parameters, videoSlot, listeners, mounted,
                 timing, now, timeouts, intervals, calls, quartileLog,
                 stoppedCount, stoppedDelay, phase, resumedSince, subscribed,
                 progress, sample>>

\* expandAd reads the free variable `elem`, which neither file declares: it
\* is a ReferenceError unless the page has a global of that name (a global
\* variable, or an element whose id is "elem"), with or without
\* requestFullscreen.
Elems == {"undeclared", "plain", "fullscreen"}

\* args: whether elem.requestFullscreen() was called
ExpandAd(elem) ==
  /\ attributes' = [attributes EXCEPT !.expanded = TRUE]
  /\ LET ex0 == IF elem = "undeclared" THEN Throw(Ex0) ELSE Ex0
         ex1 == CallEvent(ex0, eventsCallbacks, "AdExpanded")
     IN lastOp' = OpSeen("expandAd", ex1, <<elem = "fullscreen">>,
                         SeenBy(ex1, "AdExpanded",
                                AtDispatch(attributes.expanded, TRUE)))
  /\ UNCHANGED <<variant, eventsCallbacks, intervalId, lastQuartileIndex,
                 parameters, videoSlot, listeners, mounted, timing, now,
                 timeouts, intervals, calls, quartileLog, stoppedCount,
                 stoppedDelay, phase, resumedSince, subscribed, progress,
                 sample>>

CollapseAd ==
  /\ attributes' = [attributes EXCEPT !.expanded = FALSE]
  /\ lastOp' = Op("collapseAd", Ex0)
  /\ UNCHANGED <<variant, eventsCallbacks, intervalId, lastQuartileIndex,
                 parameters, videoSlot, listeners, mounted, timing, now,
                 timeouts, intervals, calls, quartileLog, stoppedCount,
                 stoppedDelay, phase, resumedSince, subscribed, progress,
                 sample>>

\* updateVideoPlayerSize_ sets the element's width and height.  The linear
\* ad wraps it in try/catch; in the non-linear ad it is a TypeError while
\* there is no media element.
ResizeAd(w, h, vm) ==
  /\ attributes' = [attributes EXCEPT !.width = w, !.height = h,
                                      !.viewMode = vm]
  /\ videoSlot' = IF videoSlot.present
                  THEN [videoSlot EXCEPT !.size = <<w, h>>] ELSE videoSlot
  /\ LET ex0 == IF variant = "nonlinear" /\ ~videoSlot.present
                THEN Throw(Ex0) ELSE Ex0
         ex1 == CallEvent(ex0, eventsCallbacks, "AdSizeChange")
         old == <<attributes.width, attributes.height, attributes.viewMode>>
     IN lastOp' = OpSeen("resizeAd", ex1, <<w, h, vm>>,
                         SeenBy(ex1, "AdSizeChange",
                                AtDispatch(old, <<w, h, vm>>)))
  /\ UNCHANGED <<variant, eventsCallbacks, intervalId, lastQuartileIndex,
                 parameters, listeners, mounted, timing, now, timeouts,
                 intervals, calls, quartileLog, stoppedCount, stoppedDelay,
                 phase, resumedSince, subscribed, progress, sample>>

----------------------------------------------------------------------------
(* subscribe, unsubscribe *)

\* A subscribe that keeps the callback already bound to the name.
BindKeepFirst(reg, ev, cb) ==
  IF reg[ev] \in Callbacks THEN reg ELSE [reg EXCEPT ![ev] = cb]

\* eventsCallbacks_[eventName] = aCallback.bind(aContext)
Bind(reg, ev, cb) == [reg EXCEPT ![ev] = cb]

\* eventsCallbacks_[eventName] = null
Unbind(reg, ev) == [reg EXCEPT ![ev] = Null]

Subscribe(cb, ev) ==
  /\ eventsCallbacks' = Bind(eventsCallbacks, ev, cb)
  /\ subscribed' = [subscribed EXCEPT ![ev] = [last |-> cb,
                                                ever |-> @.ever \cup {cb}]]
  /\ lastOp' = Op("subscribe", Ex0)
  /\ UNCHANGED <<sample,
                 variant, attributes, intervalId, lastQuartileIndex,
                 parameters, videoSlot, listeners, mounted, timing, now,
                 timeouts, intervals, calls, quartileLog, stoppedCount,
                 stoppedDelay, phase, resumedSince, progress>>

Unsubscribe(ev) ==
  /\ eventsCallbacks' = Unbind(eventsCallbacks, ev)
  /\ subscribed' = [subscribed EXCEPT ![ev].last = NoCb]
  /\ lastOp' = Op("unsubscribe", Ex0)
  /\ UNCHANGED <<sample,
                 variant, attributes, intervalId, lastQuartileIndex,
                 parameters, videoSlot, listeners, mounted, timing, now,
                 timeouts, intervals, calls, quartileLog, stoppedCount,
                 stoppedDelay, phase, resumedSince, progress>>

----------------------------------------------------------------------------
(* The media element's time updates (linear) *)

\* percentPlayed >= value, where percentPlayed = currentTime * 100.0 / duration
PercentReached(cur, dur, value) ==
  IF ~IsNum(dur) THEN FALSE
  ELSE IF dur = 0 THEN cur > 0
  ELSE cur * 100 >= value * dur

\* A handler that forgets to advance the cursor.
KeepQuartile(lqi) == lqi

\* lastQuartileIndex_ += 1
AdvanceQuartile(lqi) == lqi + 1

\* One run of timeUpdateHandler_ on st = [lqi, attrs, disp, err, qlog]: the
\* cursor, the attributes, the dispatches of this media event so far, whether
\* a listener threw, and the schedule's events dispatched so far.
TimeUpdateHandler(st, reg, cur, dur) ==
  LET a1 == [st.attrs EXCEPT !.remainingTime = JsSub(dur, cur)]
      ex0 == [disp |-> st.disp, err |-> FALSE]
  IN IF st.lqi >= Len(quartileEvents_)
     THEN [st EXCEPT !.attrs = a1]
     ELSE
       LET q == quartileEvents_[st.lqi + 1]
           hit == PercentReached(cur, dur, q.value)
           ex1 == IF hit THEN DirectCall(ex0, reg, q.event) ELSE ex0
       IN IF ex1.err
          THEN [st EXCEPT !.attrs = a1, !.disp = ex1.disp, !.err = TRUE]
          ELSE
            LET changed == JsNe(a1.duration, dur)
                a2 == IF changed THEN [a1 EXCEPT !.duration = dur] ELSE a1
                ex2 == IF changed
                       THEN CallEvent(ex1, reg, "AdDurationChange") ELSE ex1
            IN [lqi |-> IF hit THEN AdvanceQuartile(st.lqi) ELSE st.lqi,
                attrs |-> a2,
                disp |-> ex2.disp,
                err |-> st.err \/ ex2.err,
                qlog |-> IF hit THEN Append(st.qlog, q.event) ELSE st.qlog]

\* The n 'timeupdate' listeners run one after the other; a listener that
\* throws does not keep the next one from running.
RECURSIVE TimeUpdateHandlers(_, _, _, _, _)
TimeUpdateHandlers(st, reg, cur, dur, n) ==
  IF n = 0 THEN st
  ELSE TimeUpdateHandlers(TimeUpdateHandler(st, reg, cur, dur), reg, cur, dur,
                          n - 1)

\* The media times the element can report when its duration is dur.
MediaTimes(dur, times) == IF IsNum(dur) THEN {t \in times : t <= dur} ELSE {0}

\* One run of the 'loadedmetadata' listener that overlay2OnClick_ adds, on
\* st = [attrs, tm, disp, err], at time t:
\*   if (attributes_.duration != videoSlot_.duration) { duration = ...;
\*     startTime_ = now; timePaused_ = 0; invokeCallback_('AdDurationChange') }
LoadedMetadataHandler(st, reg, dur, t) ==
  IF ~JsNe(st.attrs.duration, dur) THEN st
  ELSE LET ex == CallEvent([disp |-> st.disp, err |-> FALSE], reg,
                           "AdDurationChange")
       IN [attrs |-> [st.attrs EXCEPT !.duration = dur],
           tm |-> [st.tm EXCEPT !.startTime = t, !.timePaused = 0],
           disp |-> ex.disp,
           err |-> st.err \/ ex.err]

\* The n 'loadedmetadata' listeners run one after the other.
RECURSIVE LoadedMetadataHandlers(_, _, _, _, _)
LoadedMetadataHandlers(st, reg, dur, t, n) ==
  IF n = 0 THEN st
  ELSE LoadedMetadataHandlers(LoadedMetadataHandler(st, reg, dur, t), reg,
                              dur, t, n - 1)

\* The element learns the duration of its media and fires 'loadedmetadata'.
MediaLoadedMetadata(dur) ==
  /\ videoSlot.present
  /\ videoSlot.src # 0
  /\ videoSlot.duration = NaN
  /\ videoSlot' = [videoSlot EXCEPT !.duration = dur]
  /\ LET st == LoadedMetadataHandlers(
                 [attrs |-> attributes, tm |-> timing, disp |-> <<>>,
                  err |-> FALSE],
                 eventsCallbacks, dur, now, listeners.loadedmetadata)
     IN /\ attributes' = st.attrs
        /\ timing' = st.tm
        /\ lastOp' = OpSeen("loadedmetadata", st, <<>>,
                            SeenBy(st, "AdDurationChange",
                                   AtDispatch(attributes.duration,
                                              st.attrs.duration)))
        /\ progress' = [progress EXCEPT
                          !.notices = @ + CountOf(st.disp, "AdDurationChange")]
  /\ UNCHANGED <<sample,
                 variant, eventsCallbacks, intervalId, lastQuartileIndex,
                 parameters, listeners, mounted, now, timeouts, intervals,
                 calls, quartileLog, stoppedCount, stoppedDelay, phase,
                 resumedSince, subscribed>>

\* The element fires 'timeupdate' with currentTime = cur.
MediaTimeUpdate(cur) ==
  /\ listeners.timeupdate > 0
  /\ videoSlot.src # 0
  /\ LET st == TimeUpdateHandlers(
                 [lqi |-> lastQuartileIndex, attrs |-> attributes,
                  disp |-> <<>>, err |-> FALSE, qlog |-> quartileLog],
                 eventsCallbacks, cur, videoSlot.duration,
                 listeners.timeupdate)
     IN /\ videoSlot' = [videoSlot EXCEPT !.currentTime = cur]
        /\ lastQuartileIndex' = st.lqi
        /\ attributes' = st.attrs
        /\ quartileLog' = st.qlog
        /\ lastOp' = OpSeen("timeupdate", st, <<>>,
                            SeenBy(st, "AdDurationChange",
                                   AtDispatch(attributes.duration,
                                              st.attrs.duration)))
        /\ progress' =
             [seen |-> TRUE,
              from0 |-> IF progress.seen THEN progress.from0 ELSE cur = 0,
              mono |-> /\ progress.mono
                       /\ IsNum(videoSlot.duration)
                       /\ progress.seen => cur >= videoSlot.currentTime,
              clean |-> progress.clean /\ ~st.err,
              notices |-> progress.notices]
  /\ UNCHANGED <<sample,
                 variant, eventsCallbacks, intervalId, parameters, listeners,
                 mounted, timing, now, timeouts, intervals, calls,
                 stoppedCount, stoppedDelay, phase, resumedSince, subscribed>>

----------------------------------------------------------------------------
(* The click on the creative (non-linear): adsOnClick_ *)

AdsOnClick ==
  /\ mounted
  /\ calls.click < MaxClicks
  /\ calls' = [calls EXCEPT !.click = @ + 1]
  /\ LET ex1 == DirectCall(Ex0, eventsCallbacks, "AdClickThru")
         ex2 == CallEvent(ex1, eventsCallbacks, "AdRemainingTimeChange")
     IN /\ attributes' = IF ex1.err THEN attributes
                         ELSE [attributes EXCEPT
                                 !.duration = JsAdd(@, CLICK_EXTENSION)]
        /\ lastOp' = Op("click", ex2)
  /\ UNCHANGED <<sample,
                 variant, eventsCallbacks, intervalId, lastQuartileIndex,
                 parameters, videoSlot, listeners, mounted, timing, now,
                 timeouts, intervals, quartileLog, stoppedCount, stoppedDelay,
                 phase, resumedSince, subscribed, progress>>

----------------------------------------------------------------------------
(* The click on the second overlay (non-linear): overlay2OnClick_, which
   turns the ad into a linear one.  startAd's lines that create the overlay
   and register the handler are commented out (part_000:407-410), so the
   handler runs only when those lines are restored: the overlay is then one
   of the children startAd appends to slot_, and it can be clicked while it
   is there. *)

Overlay2OnClick ==
  /\ variant = "nonlinear"
  /\ mounted
  /\ calls.overlay < MaxOverlays
  /\ calls' = [calls EXCEPT !.overlay = @ + 1]
  /\ attributes' = [attributes EXCEPT !.linear = TRUE]
  /\ LET ex1 == CallEvent(Ex0, eventsCallbacks, "AdLinearChange")
         sel == FirstPlayable(parameters.videos)
         ex2 == UpdateVideoSlot(ex1, eventsCallbacks, parameters.videos)
     IN \* every child of slot_ is removed
        /\ mounted' = IF ex1.err THEN mounted ELSE FALSE
        /\ videoSlot' =
             IF ex2.err THEN
               IF ~ex1.err /\ sel # 0
               THEN [videoSlot EXCEPT !.src = sel, !.currentTime = 0,
                                      !.duration = NaN]
               ELSE videoSlot
             ELSE IF sel # 0
               THEN [videoSlot EXCEPT !.src = sel, !.currentTime = 0,
                                      !.duration = NaN, !.playing = TRUE]
             ELSE [videoSlot EXCEPT !.playing = TRUE]
        /\ listeners' = IF ex2.err THEN listeners
                        ELSE [listeners EXCEPT !.loadedmetadata = @ + 1,
                                               !.ended = @ + 1]
        /\ lastOp' = OpSeen("overlay2", ex2, <<>>,
                            SeenBy(ex2, "AdLinearChange",
                                   AtDispatch(attributes.linear, TRUE)))
  /\ UNCHANGED <<sample,
                 variant, eventsCallbacks, intervalId, lastQuartileIndex,
                 parameters, timing, now, timeouts, intervals, quartileLog,
                 stoppedCount, stoppedDelay, phase, resumedSince, subscribed,
                 progress>>

----------------------------------------------------------------------------
(* Inputs *)

\* The creative parameters the host passes to initAd: whether they parse,
\* whether ads[0] exists, and which entries of videos are playable.
GoodCreative == [ok |-> TRUE, ads |-> TRUE, videos |-> <<FALSE, TRUE>>]
NoAdsCreative == [ok |-> TRUE, ads |-> FALSE, videos |-> <<TRUE>>]
MalformedCreative == [ok |-> FALSE, ads |-> FALSE, videos |-> <<>>]

NoPlayableCreative == [ok |-> TRUE, ads |-> TRUE, videos |-> <<FALSE, FALSE>>]
AllPlayableCreative == [ok |-> TRUE, ads |-> TRUE, videos |-> <<TRUE, TRUE>>]
Creatives == {GoodCreative, NoAdsCreative, MalformedCreative,
              NoPlayableCreative, AllPlayableCreative}

Widths == {640, 320}
Heights == {480}
ViewModes == {"normal", "fullscreen"}
Bitrates == {256, 512}

MediaDurations == {6000, 8000}
ReportedTimes == {0, 2000, 4000, 6000, 8000}

HostInit(creatives) ==
  \E c \in creatives : InitAd(640, 480, "normal", 256, c)

HostInitWith(creatives) ==
  \E w \in Widths, h \in Heights, vm \in ViewModes, br \in Bitrates,
     c \in creatives : InitAd(w, h, vm, br, c)

MediaLoaded(durs) == \E dur \in durs : MediaLoadedMetadata(dur)

MediaProgress(times) ==
  \E cur \in MediaTimes(videoSlot.duration, times) : MediaTimeUpdate(cur)

ScheduleNames == {quartileEvents_[i].event : i \in 1..Len(quartileEvents_)}

InitLinear == Init /\ variant = "linear"
InitNonLinear == Init /\ variant = "nonlinear"

----------------------------------------------------------------------------
(* Spec: the lifecycle.  The host's calls in any order, with the media
   element reporting progress; the clock stands still. *)

LifeEvents == {"AdImpression"}

Next ==
  \/ HostInit({GoodCreative})
  \/ StartAd
  \/ PauseAd
  \/ ResumeAd
  \/ StopAd
  \/ \E ev \in LifeEvents : Subscribe("cb1", ev)
  \/ MediaLoaded({6000})
  \/ MediaProgress({0, 6000})

Spec == Init /\ [][Next]_vars

----------------------------------------------------------------------------
(* SpecQuartile: the linear ad's quartile reporting.  The host subscribes to
   the scheduled events and the media element reports any position, forwards
   or backwards. *)

NextQuartile ==
  \/ HostInit({GoodCreative})
  \/ \E ev \in ScheduleNames : Subscribe("cb1", ev)
  \/ MediaLoaded(MediaDurations)
  \/ MediaProgress(ReportedTimes)

SpecQuartile == InitLinear /\ [][NextQuartile]_vars

----------------------------------------------------------------------------
(* SpecBus: the callback registry and the dispatch paths that read it. *)

BusEvents == {"AdLoaded", "AdStarted", "AdClickThru"}

NextBus ==
  \/ \E cb \in Callbacks, ev \in BusEvents : Subscribe(cb, ev)
  \/ \E ev \in BusEvents : Unsubscribe(ev)
  \/ HostInit({GoodCreative})
  \/ StartAd
  \/ AdsOnClick

SpecBus == Init /\ [][NextBus]_vars

----------------------------------------------------------------------------
(* SpecStop: stopAd and its deferred AdStopped.  The browser runs a timer
   callback once it is due, and the clock advances. *)

NextStop ==
  \/ HostInit({GoodCreative})
  \/ Subscribe("cb1", "AdStopped")
  \/ Unsubscribe("AdStopped")
  \/ StopAd
  \/ MediaEnded
  \/ StopTimeoutFire
  \/ Tick

SpecStop ==
  /\ Init
  /\ [][NextStop]_vars
  /\ WF_vars(StopTimeoutFire)
  /\ WF_vars(Tick)

----------------------------------------------------------------------------
(* SpecTimers: the linear ad's remaining-time interval under resume, pause
   and stop. *)

NextTimers ==
  \/ HostInit({GoodCreative})
  \/ ResumeAd
  \/ PauseAd
  \/ StopAd
  \/ StopTimeoutFire
  \/ \E id \in 1..MaxResumes : IntervalFire(id)
  \/ Tick

SpecTimers == InitLinear /\ [][NextTimers]_vars

----------------------------------------------------------------------------
(* SpecClock: the non-linear ad's remaining time, computed from the wall
   clock, under start, pause and resume. *)

NextClock ==
  \/ HostInit({GoodCreative})
  \/ StartAd
  \/ PauseAd
  \/ ResumeAd
  \/ GetAdRemainingTime
  \/ Tick

SpecClock == InitNonLinear /\ [][NextClock]_vars

----------------------------------------------------------------------------
(* SpecAttrs: the host's setters and commands that do not depend on the
   lifecycle, in any lifecycle state. *)

AttrEvents == {"AdVolumeChange", "AdVolumeChanged", "AdSkipped", "AdExpanded"}
Volumes == {0, 50, 100}

NextAttrs ==
  \/ HostInit({GoodCreative})
  \/ StartAd
  \/ \E ev \in AttrEvents : Subscribe("cb1", ev)
  \/ \E value \in Volumes : SetAdVolume(value)
  \/ SkipAd
  \/ \E elem \in Elems : ExpandAd(elem)
  \/ CollapseAd

SpecAttrs == Init /\ [][NextAttrs]_vars

----------------------------------------------------------------------------
(* SpecInit: initAd with any arguments and any creative parameters, and the
   startAd that follows. *)

InitEvents == {"AdLoaded", "AdError"}

NextInit ==
  \/ HostInitWith(Creatives)
  \/ StartAd
  \/ \E ev \in InitEvents : Subscribe("cb1", ev)

SpecInit == Init /\ [][NextInit]_vars

----------------------------------------------------------------------------
(* SpecOverlay: the non-linear ad that its second overlay turns linear. *)

OverlayEvents == {"AdPaused", "AdLinearChange", "AdDurationChange",
                  "AdClickThru"}

NextOverlay ==
  \/ HostInit({GoodCreative})
  \/ StartAd
  \/ \E ev \in OverlayEvents : Subscribe("cb1", ev)
  \/ AdsOnClick
  \/ Overlay2OnClick
  \/ MediaLoaded({6000})
  \/ PauseAd

SpecOverlay == InitNonLinear /\ [][NextOverlay]_vars

----------------------------------------------------------------------------
(* SpecChanges: every operation that dispatches a change event, with a
   subscriber to each of them. *)

ChangeEvents == {"AdSizeChange", "AdVolumeChange", "AdExpanded",
                 "AdLinearChange", "AdDurationChange"}

NextChanges ==
  \/ HostInit({GoodCreative})
  \* the non-linear ad's startAd puts the overlay in place
  \/ variant = "nonlinear" /\ StartAd
  \/ \E ev \in ChangeEvents : Subscribe("cb1", ev)
  \/ ResizeAd(320, 480, "fullscreen")
  \/ SetAdVolume(100)
  \/ ExpandAd("plain")
  \/ Overlay2OnClick
  \/ MediaLoaded({8000})
  \/ MediaProgress({0})

SpecChanges == Init /\ [][NextChanges]_vars

----------------------------------------------------------------------------
(* SpecSession: the linear ad from initAd to AdStopped and after it, with
   the media element still reporting its progress: stopAd neither pauses
   the media nor removes the listeners. *)

SessionEvents == {"AdStopped", "AdImpression"}

NextSession ==
  \/ HostInit({GoodCreative})
  \/ \E ev \in SessionEvents : Subscribe("cb1", ev)
  \/ StopAd
  \/ StopTimeoutFire
  \/ MediaLoaded({6000})
  \/ MediaProgress({0})
  \/ Tick

SpecSession == InitLinear /\ [][NextSession]_vars

----------------------------------------------------------------------------
(* Properties *)

Dispatched(op) == {op.disp[i].event : i \in 1..Len(op.disp)}

\* C1: every start() that returns dispatches AdStarted and then AdImpression
\* and nothing else, so AdImpression comes once per start(), right after
\* AdStarted and inside start(); no other operation (resume(), a media time
\* update) dispatches AdImpression.
C1_ImpressionByStart ==
  /\ (lastOp.name = "startAd" /\ ~lastOp.err)
       => EventsOf(lastOp.disp) = <<"AdStarted", "AdImpression">>
  /\ lastOp.name # "startAd" => "AdImpression" \notin Dispatched(lastOp)

\* The quartile events proper: the schedule's events without AdImpression.
VideoQuartiles ==
  <<"AdVideoStart", "AdVideoFirstQuartile", "AdVideoMidpoint",
    "AdVideoThirdQuartile", "AdVideoComplete">>

IsVideoQuartile(e) == e # "AdImpression"

\* C2: once the media element has reported positions that never decrease,
\* from 0% to 100%, with every dispatch finding its subscriber, the quartile
\* events dispatched are exactly AdVideoStart, AdVideoFirstQuartile,
\* AdVideoMidpoint, AdVideoThirdQuartile, AdVideoComplete, once each, in
\* that order, whatever the steps between the reports.
C2_AllQuartilesAtComplete ==
  ( /\ lastOp.name = "timeupdate"
    /\ progress.from0 /\ progress.mono /\ progress.clean
    /\ IsNum(videoSlot.duration)
    /\ videoSlot.currentTime = videoSlot.duration )
  => SelectSeq(quartileLog, IsVideoQuartile) = VideoQuartiles

\* The schedule's events dispatched so far are the first lastQuartileIndex
\* entries of the schedule, in the schedule's order.
C3_PrefixOfSchedule ==
  /\ lastQuartileIndex <= Len(quartileEvents_)
  /\ Len(quartileLog) = lastQuartileIndex
  /\ \A i \in 1..Len(quartileLog) : quartileLog[i] = quartileEvents_[i].event

\* A step never moves the cursor back, and once the cursor is past the last
\* threshold a time update dispatches no scheduled event.
C3_Step ==
  /\ lastQuartileIndex' >= lastQuartileIndex
  /\ (lastQuartileIndex = Len(quartileEvents_) /\ lastOp'.name = "timeupdate")
       => Dispatched(lastOp') \cap ScheduleNames = {}

\* C3: lastQuartileIndex only moves forward; across any sequence of time
\* updates, the media position moving backwards included, the scheduled
\* events are dispatched in schedule order, none twice, and none after the
\* last threshold has fired.
C3_CursorOnlyAdvances == [](C3_PrefixOfSchedule) /\ [][C3_Step]_vars

\* The whole schedule has fired and the media element then reported a
\* position before its end.
C3_Witness ==
  /\ lastOp.name = "timeupdate"
  /\ lastQuartileIndex = Len(quartileEvents_)
  /\ quartileLog = [i \in 1..Len(quartileEvents_) |-> quartileEvents_[i].event]
  /\ IsNum(videoSlot.duration)
  /\ videoSlot.currentTime < videoSlot.duration

\* C4: stop() dispatches nothing itself; AdStopped is dispatched only by
\* the deferred callback, at least 75 time units after the stop() that
\* scheduled it; and every stop() is eventually followed by its AdStopped.
C4_StoppedIsDeferred ==
  /\ []("AdStopped" \in Dispatched(lastOp) => lastOp.name = "stopTimeout")
  /\ [](lastOp.name = "stopTimeout" => stoppedDelay >= 75)
  /\ \A k \in 1..MaxStops : (calls.stop >= k) ~> (stoppedCount >= k)

\* The deferred callback has dispatched AdStopped to a subscriber.
C4_Witness ==
  /\ lastOp.name = "stopTimeout"
  /\ lastOp.disp = <<[event |-> "AdStopped", cb |-> "cb1"]>>
  /\ stoppedCount = calls.stop

\* C5: AdStopped is dispatched at most once per adapter instance, however
\* often stop() is invoked.
C5_StoppedAtMostOnce == stoppedCount <= 1

\* C6: a dispatch of an event that was never subscribed invokes nothing and
\* raises no error, on every dispatch path.
C6_SilentMiss ==
  \A i \in 1..Len(lastOp.disp) :
    eventsCallbacks[lastOp.disp[i].event] = Absent
      => lastOp.disp[i].cb = NoCb

\* C7: a dispatch of an event whose binding unsubscribe() cleared invokes
\* nothing and raises no error.
C7_InertAfterUnsubscribe ==
  \A i \in 1..Len(lastOp.disp) :
    eventsCallbacks[lastOp.disp[i].event] = Null
      => lastOp.disp[i].cb = NoCb

\* C8: a dispatch invokes the callback of the most recent subscribe for the
\* event's name, and no callback subscribed earlier for that name.
C8_LatestSubscriberOnly ==
  \A i \in 1..Len(lastOp.disp) :
    LET d == lastOp.disp[i]
    IN /\ d.cb \in Callbacks => d.cb = subscribed[d.event].last
       /\ subscribed[d.event].last \in Callbacks
            => d.cb = subscribed[d.event].last

\* A dispatch invoked cb2 for a name that cb1 was subscribed to before.
C8_Witness ==
  \E i \in 1..Len(lastOp.disp) :
    /\ lastOp.disp[i].cb = "cb2"
    /\ subscribed[lastOp.disp[i].event].ever = Callbacks

\* C9: resume() in a state other than Paused dispatches nothing, raises no
\* error and changes no timing or timer state.
C9_ResumeOutOfTurn ==
  [][ (phase # "Paused" /\ lastOp'.name = "resumeAd")
        => /\ lastOp'.disp = <<>>
           /\ ~lastOp'.err
           /\ timing' = timing
           /\ intervals' = intervals
           /\ intervalId' = intervalId ]_vars

\* C10: the interval's callback runs (decrementing remainingTime and
\* dispatching AdRemainingTimeChange) only while the last of resume(),
\* pause() and stop() to return was a resume().
C10_NoTickAfterPause == lastOp.name = "interval" => resumedSince

\* C11: in the non-linear ad, of two values of getAdRemainingTime with the
\* clock advanced between them and no start, pause or resume between them,
\* the second equals the first when the last such call was a pause() of the
\* playing ad, and is strictly smaller than the first when it was a resume()
\* of the paused ad.
C11_FreezeWhilePaused ==
  [][ (lastOp'.name = "getAdRemainingTime" /\ sample.has /\ now > sample.at)
        => /\ sample.since = "pause" => sample'.value = sample.value
           /\ sample.since = "resume" => JsLt(sample'.value, sample.value)
    ]_vars

\* C12: a time update whose media duration equals the stored duration
\* dispatches no AdDurationChange and leaves the stored duration as it
\* was; and a step dispatches AdDurationChange only when it changes the
\* value of the stored duration.
C12_DurationIdempotent ==
  [][ /\ (lastOp'.name = "timeupdate"
           /\ videoSlot.duration = attributes.duration)
        => /\ "AdDurationChange" \notin Dispatched(lastOp')
           /\ attributes'.duration = attributes.duration
      /\ "AdDurationChange" \in Dispatched(lastOp')
           => attributes'.duration # attributes.duration
    ]_vars

\* C13: a step that changes the stored duration dispatches AdDurationChange
\* exactly once, the click that extends the duration included; and a time
\* update that reports a duration leaves that duration stored, also when all
\* quartile events have fired before.
C13_DurationChangeNotified ==
  [][ /\ attributes'.duration # attributes.duration
           => CountOf(lastOp'.disp, "AdDurationChange") = 1
      /\ (lastOp'.name = "timeupdate" /\ ~lastOp'.err
           /\ IsNum(videoSlot'.duration))
           => attributes'.duration = videoSlot'.duration
    ]_vars

\* C14: every setAdVolume(value) of an initialised ad stores value as the
\* volume and invokes the callback subscribed under the name AdVolumeChange
\* exactly once.
C14_VolumeChangeNotified ==
  (lastOp.name = "setAdVolume" /\ videoSlot.present)
    => /\ attributes.volume = lastOp.args[1]
       /\ eventsCallbacks["AdVolumeChange"] \in Callbacks
            => lastOp.disp = << [event |-> "AdVolumeChange",
                                 cb |-> eventsCallbacks["AdVolumeChange"]] >>

\* C15: skipAd dispatches AdSkipped exactly once when skippableState is
\* true and nothing when it is false, and changes neither the attributes
\* nor the lifecycle state nor the media element nor the timing.
C15_SkipOnlyWhenSkippable ==
  /\ [](\A skippable \in BOOLEAN :
          EventsOf(SkipDispatch(skippable, Ex0, eventsCallbacks).disp)
            = IF skippable THEN <<"AdSkipped">> ELSE <<>>)
  /\ [][ lastOp'.name = "skipAd"
           => /\ EventsOf(lastOp'.disp)
                   = IF attributes.skippableState THEN <<"AdSkipped">>
                     ELSE <<>>
              /\ attributes' = attributes
              /\ phase' = phase
              /\ videoSlot' = videoSlot
              /\ timing' = timing ]_vars

\* skipAd was called with a subscriber for AdSkipped and dispatched nothing.
C15_Witness ==
  /\ lastOp.name = "skipAd"
  /\ lastOp.disp = <<>>
  /\ eventsCallbacks["AdSkipped"] \in Callbacks
  /\ phase = "Playing"

\* C19: in any lifecycle state, expandAd sets expanded, requests
\* full-screen and dispatches AdExpanded exactly once, and collapseAd clears
\* expanded and dispatches nothing; neither raises an error.
C19_ExpandCollapse ==
  /\ lastOp.name = "expandAd"
       => /\ ~lastOp.err
          /\ attributes.expanded
          /\ lastOp.args[1]
          /\ EventsOf(lastOp.disp) = <<"AdExpanded">>
  /\ lastOp.name = "collapseAd"
       => /\ ~lastOp.err
          /\ ~attributes.expanded
          /\ lastOp.disp = <<>>

\* C16: an initAd(width, height, viewMode, desiredBitrate, ...) that returns
\* has dispatched AdLoaded exactly once, and the width, height, viewMode
\* and desiredBitrate attributes then hold the values passed.
C16_InitStoresArguments ==
  (lastOp.name = "initAd" /\ ~lastOp.err)
    => /\ CountOf(lastOp.disp, "AdLoaded") = 1
       /\ attributes.width = lastOp.args.width
       /\ attributes.height = lastOp.args.height
       /\ attributes.viewMode = lastOp.args.viewMode
       /\ attributes.desiredBitrate = lastOp.args.desiredBitrate

\* A second initAd, with arguments other than the first's and the
\* constructor's, returned and invoked the AdLoaded subscriber.
C16_Witness ==
  /\ lastOp.name = "initAd" /\ ~lastOp.err
  /\ calls.init = 2
  /\ [event |-> "AdLoaded", cb |-> "cb1"] \in
       {lastOp.disp[i] : i \in 1..Len(lastOp.disp)}
  /\ attributes.width = 320
  /\ attributes.viewMode = "fullscreen"
  /\ attributes.desiredBitrate = 512

\* The linear ad went through a source selection that found no playable
\* entry, and the media element has no source.
NoSourceFound ==
  /\ variant = "linear"
  /\ phase # "Unstarted"
  /\ FirstPlayable(parameters.videos) = 0
  /\ videoSlot.src = 0

\* C17: the linear initAd sets the source to the first entry of videos
\* that is playable and then dispatches no AdError; with no playable entry
\* it dispatches AdError exactly once and raises no error, and while the
\* element has no source the adapter does not start media playback.
C17_SourceSelection ==
  /\ (lastOp.name = "initAd" /\ variant = "linear"
       /\ lastOp.args.creative.ok)
       => IF FirstPlayable(lastOp.args.creative.videos) # 0
          THEN /\ videoSlot.src = FirstPlayable(lastOp.args.creative.videos)
               /\ "AdError" \notin Dispatched(lastOp)
          ELSE /\ CountOf(lastOp.disp, "AdError") = 1
               /\ ~lastOp.err
  /\ NoSourceFound => ~videoSlot.playing

\* C18: an initAd whose creative parameters do not parse, or lack the ads
\* entry, raises an error and does not dispatch AdLoaded; and a startAd of
\* the loaded ad raises no error.
C18_BadCreativeFailsAtInit ==
  /\ (lastOp.name = "initAd"
       /\ (~lastOp.args.creative.ok \/ ~lastOp.args.creative.ads))
       => /\ lastOp.err
          /\ "AdLoaded" \notin Dispatched(lastOp)
  /\ (lastOp.name = "startAd" /\ phase = "Loaded") => ~lastOp.err

\* C20: a startAd in a state other than Loaded (before initAd, after the
\* ad has started, after stopAd) dispatches neither AdStarted nor
\* AdImpression, leaves the timing state as it was and raises no error.
C20_StartOnlyWhenLoaded ==
  [][ (phase # "Loaded" /\ lastOp'.name = "startAd")
        => /\ Dispatched(lastOp') \cap {"AdStarted", "AdImpression"} = {}
           /\ ~lastOp'.err
           /\ timing' = timing ]_vars

\* C21: in the non-linear variant, a pauseAd while the ad is not linear
\* leaves the timing state, every attribute and the media element as they
\* were and dispatches nothing; a pauseAd while it is linear sets isPaused
\* and pauseStartTime, pauses the media and dispatches AdPaused exactly
\* once.
C21_PauseOnlyWhenLinear ==
  [][ (lastOp'.name = "pauseAd" /\ variant = "nonlinear")
        => IF ~attributes.linear
           THEN /\ timing' = timing
                /\ attributes' = attributes
                /\ videoSlot' = videoSlot
                /\ lastOp'.disp = <<>>
           ELSE /\ timing'.isPaused
                /\ timing'.pauseStartTime = now
                /\ ~videoSlot'.playing
                /\ EventsOf(lastOp'.disp) = <<"AdPaused">> ]_vars

\* The ad became linear and a pauseAd then invoked the AdPaused subscriber.
C21_Witness ==
  /\ variant = "nonlinear"
  /\ attributes.linear
  /\ lastOp.name = "pauseAd"
  /\ lastOp.disp = << [event |-> "AdPaused", cb |-> "cb1"] >>
  /\ timing.isPaused

\* What the getters of a change event's attribute return.
GetterOf(ev, attrs) ==
  CASE ev = "AdSizeChange" -> <<attrs.width, attrs.height, attrs.viewMode>>
    [] ev = "AdVolumeChange" -> attrs.volume
    [] ev = "AdExpanded" -> attrs.expanded
    [] ev = "AdLinearChange" -> attrs.linear
    [] ev = "AdDurationChange" -> attrs.duration

\* The invocations of change-event subscribers among an operation's
\* dispatches.
ChangeCalls(op) ==
  LET Is(d) == d.event \in ChangeEvents /\ d.cb \in Callbacks
  IN SelectSeq(op.disp, Is)

\* C22: whenever a subscriber of AdSizeChange, AdVolumeChange, AdExpanded,
\* AdLinearChange or AdDurationChange is invoked, the getters already return
\* the new value: what each such subscriber could read during the dispatch
\* is the value the attribute has once the operation is over.
C22_CommittedBeforeDispatch ==
  /\ Len(lastOp.seen) = Len(ChangeCalls(lastOp))
  /\ \A i \in 1..Len(lastOp.seen) :
       /\ lastOp.seen[i].event = ChangeCalls(lastOp)[i].event
       /\ lastOp.seen[i].value = GetterOf(lastOp.seen[i].event, attributes)

\* A resizeAd to a new size invoked the AdSizeChange subscriber.
C22_Witness ==
  /\ lastOp.name = "resizeAd"
  /\ lastOp.args = <<320, 480, "fullscreen">>
  /\ lastOp.seen = << [event |-> "AdSizeChange", cb |-> "cb1",
                       value |-> <<320, 480, "fullscreen">>] >>

C24_RemainingFromMedia ==
  [][ variant = "linear" =>
        IF lastOp'.name = "timeupdate"
        THEN attributes'.remainingTime =
               JsSub(videoSlot'.duration, videoSlot'.currentTime)
        ELSE attributes'.remainingTime = attributes.remainingTime ]_vars

\* C25: in the non-linear (wall-clock) ad, with the duration unchanged,
\* every value getAdRemainingTime returns after startAd is a number not
\* greater than the value it returned before, whatever start, pause, resume,
\* clock advance and sampling came between the two.
C25_RemainingNeverIncreases ==
  [][ ( /\ variant = "nonlinear"
        /\ lastOp'.name = "getAdRemainingTime"
        /\ phase \in {"Playing", "Paused"}
        /\ sample.any )
        => /\ IsNum(sample'.last)
           /\ sample'.last <= sample.last ]_vars

\* The events of a sequence of dispatches that invoked a callback of the
\* host.
Delivered(disp) ==
  {disp[i].event : i \in {j \in 1..Len(disp) : disp[j].cb \in Callbacks}}

\* C26: AdStopped is the last event of a session: once AdStopped has been
\* dispatched, no step (a time update, a timer, a host call) delivers any
\* other event to the host.
C26_StoppedIsLast ==
  [][ stoppedCount > 0 => Delivered(lastOp'.disp) \subseteq {"AdStopped"} ]_vars

====
